---- MODULE Spec2Model ----
(***************************************************************************)
(* minibooks: the ledger engine (src/src/ledger.rs), its SQLite access     *)
(* layer (src/src/db.rs, src/src/settings.rs) and the balance-sheet        *)
(* projection (src/src/services.rs).                                       *)
(*                                                                         *)
(* Request workers call the ledger operations concurrently.  Every .await  *)
(* on the store is one step of the calling worker.  The store is SQLite:   *)
(* a committed database, plus, per open transaction, a snapshot (taken by  *)
(* the first read) or a working copy (made by the first write, which takes *)
(* the single write lock).  Dropping a transaction without commit rolls it *)
(* back.  Any store call may fail (StorageError).                          *)
(***************************************************************************)
EXTENDS Integers, Sequences, FiniteSets, TLC

VARIABLES
    db,         \* the committed database: tables account, settings, batch, journal, entry
    tx,         \* tx[w]: the transaction worker w holds open
    pc,         \* pc[w]: where worker w stands in its handler
    call,       \* call[w]: the operation worker w runs, with its arguments
    loc,        \* loc[w]: the local variables of worker w's handler
    result,     \* result[w]: what the finished call returned
    ncalls,     \* calls started so far
    allocated,  \* history: how often each account id was returned by a successful account_new
    posted      \* history: what the successful batch_new calls were given

vars == <<db, tx, pc, call, loc, result, ncalls, allocated, posted>>

(***************************************************************************)
(* Bounds of the exploration.                                              *)
(***************************************************************************)
NumWorkers == 2
MaxCalls == 3
MaxJournals == 2
IntBits == 12

Workers == 1..NumWorkers

(***************************************************************************)
(* Data types.                                                             *)
(***************************************************************************)
AccountType ==
    {"Cash", "CurrentAsset", "CurrentLiability", "Equity", "DirectExpense",
     "IndirectExpense", "Inventory", "NonCurrentAsset", "NonCurrentLiability",
     "OtherIncome", "Prepayments", "Revenue", "System"}

\* An optional / nullable value: {} is None (SQL NULL), {v} is Some(v).
None == {}
Some(v) == {v}
IsNone(o) == o = {}
Unwrap(o) == CHOOSE v \in o : TRUE
IFNULL(o, d) == IF o = {} THEN d ELSE Unwrap(o)

\* A String, by what the code looks at: its UTF-8 byte length (str::len);
\* chars is the number of characters it holds.
Str(nchars, nbytes) == [chars |-> nchars, bytes |-> nbytes]
len(s) == s.bytes

MaxNameLen == 140
MaxNarrativeLen == 140
MinAccountId == 1
MaxAccountId == 990

RECURSIVE SeqSum(_)
SeqSum(s) == IF s = <<>> THEN 0 ELSE Head(s) + SeqSum(Tail(s))

\* i64: the amounts are signed IntBits-bit integers (64 bits in the code, fewer
\* here), IntMin..IntMax.
IntMin == 0 - 2^(IntBits - 1)
IntMax == 2^(IntBits - 1) - 1

\* a + b leaves the range of the type.
Overflows(a, b) == a + b < IntMin \/ a + b > IntMax

\* a + b in two's complement, as a build without overflow checks computes it.
wrapping_add(a, b) == ((a + b - IntMin) % 2^IntBits) + IntMin

\* Iterator::sum::<i64>(): the fold of + over the amounts, from acc.  An addition
\* that overflows panics in a build with overflow checks (the debug profile)
\* and wraps around in a build without (the release profile).
RECURSIVE i64_sum(_, _, _)
i64_sum(acc, amounts, overflow_checks) ==
    IF amounts = <<>> THEN [panic |-> FALSE, value |-> acc]
    ELSE IF overflow_checks /\ Overflows(acc, Head(amounts))
         THEN [panic |-> TRUE, value |-> 0]
    ELSE i64_sum(wrapping_add(acc, Head(amounts)), Tail(amounts), overflow_checks)

\* The rows of a table, as a sequence in ascending order of their id (the
\* order in which SQLite scans a table by rowid).
RECURSIVE OrderById(_)
OrderById(S) ==
    IF S = {} THEN <<>>
    ELSE LET r == CHOOSE x \in S : \A y \in S : x.id <= y.id
         IN  <<r>> \o OrderById(S \ {r})

RECURSIVE Flatten(_)
Flatten(ss) == IF ss = <<>> THEN <<>> ELSE Head(ss) \o Flatten(Tail(ss))

(***************************************************************************)
(* Setting names.                                                          *)
(***************************************************************************)
next_id_setting_name(account_type) == "nextAccount" \o account_type

(***************************************************************************)
(* The store.  A database is a record of tables:                           *)
(*   account  : a set of rows [id, name, type]                             *)
(*   settings : a function from setting name to its intValue (nullable)    *)
(*   batch    : the rows [id], in insertion order                          *)
(*   journal  : the rows [id, batch_id, unstructured_narrative]            *)
(*   entry    : the rows [id, journal_id, account_id, amount]              *)
(* batch, journal and entry ids are rowids: the last one plus one.         *)
(***************************************************************************)
NoTx == [state |-> "none"]

\* What worker w's connection sees.
TxView(w) ==
    CASE tx[w].state = "write" -> tx[w].work
      [] tx[w].state = "read"  -> tx[w].snap
      [] OTHER                 -> db

\* SQLite has one writer at a time.
WriteLockFree(w) == \A v \in Workers \ {w} : tx[v].state # "write"

\* A transaction that has read cannot write once another one has committed.
SnapshotStale(w) == tx[w].state = "read" /\ tx[w].snap # db

\* The transaction after its first (or a further) read.
AfterRead(w) ==
    IF tx[w].state = "begun" THEN [state |-> "read", snap |-> db] ELSE tx[w]

\* The transaction after a write that leaves the working copy d.
AfterWrite(d) == [state |-> "write", work |-> d]

\* The account table's primary key: no second row with this id.
AccountIdFree(d, id) == \A a \in d.account : a.id # id

\* entry.account_id references account(id).
ForeignKeyOk(d, account_id) == \E a \in d.account : a.id = account_id

last_insert_rowid(table) == Len(table)

(***************************************************************************)
(* settings.rs                                                             *)
(***************************************************************************)
\* get_settings_int: fetch_one(..).unwrap() panics when the row is missing or
\* the query fails; the result is the row's intValue, an Option.
get_settings_int(d, name, fault) ==
    IF fault \/ name \notin DOMAIN d.settings
    THEN [panic |-> TRUE, value |-> None]
    ELSE [panic |-> FALSE, value |-> d.settings[name]]

\* Mutant: the write never reaches the store (the future is not awaited).
set_settings_int_dropped(d, name, value) == d

\* set_settings_int: INSERT OR REPLACE INTO settings (name, intValue).
set_settings_int(d, name, value) ==
    [d EXCEPT !.settings =
        [n \in DOMAIN d.settings \cup {name} |->
            IF n = name THEN Some(value) ELSE d.settings[n]]]

(***************************************************************************)
(* db.rs: the queries                                                      *)
(***************************************************************************)
\* SQL SUM over the non-NULL values of a column: NULL when there is none.
SqlSum(vals) == IF vals = <<>> THEN None ELSE Some(SeqSum(vals))

Max2(a, b) == IF a >= b THEN a ELSE b
Min2(a, b) == IF a <= b THEN a ELSE b

RECURSIVE SetAsSeq(_)
SetAsSeq(S) ==
    IF S = {} THEN <<>>
    ELSE LET r == CHOOSE x \in S : TRUE IN <<r>> \o SetAsSeq(S \ {r})

Amounts(rows) == [i \in 1..Len(rows) |-> rows[i].amount]

\* Mutant: SUM(max(amount, 0)), the debits only, as in the detail query.
BalanceByAccountDebits(d) ==
    { [account_id |-> a,
       balance |-> SqlSum(Amounts(SelectSeq(d.entry,
                        LAMBDA e : e.account_id = a /\ e.amount > 0)))] :
      a \in {d.entry[i].account_id : i \in 1..Len(d.entry)} }

\* SELECT account_id, SUM(amount) AS balance FROM entry GROUP BY account_id
BalanceByAccount(d) ==
    { [account_id |-> a,
       balance |-> SqlSum(Amounts(SelectSeq(d.entry, LAMBDA e : e.account_id = a)))] :
      a \in {d.entry[i].account_id : i \in 1..Len(d.entry)} }

\* Mutant: an inner join, which drops the accounts without entries.
ListInnerJoin(r, b) ==
    LET ms == SetAsSeq({g \in b : g.account_id = r.id})
    IN  [i \in 1..Len(ms) |-> [account |-> r, balance |-> ms[i].balance]]

\* One account row LEFT JOINed with the grouped balances.
ListJoin(r, b) ==
    LET m == {g \in b : g.account_id = r.id}
    IN  IF m = {} THEN <<[account |-> r, balance |-> None]>>
        ELSE LET ms == SetAsSeq(m)
             IN  [i \in 1..Len(ms) |-> [account |-> r, balance |-> ms[i].balance]]

account_list_query(d) ==
    LET accts == OrderById(d.account)
        b == BalanceByAccount(d)
        joined == Flatten([k \in 1..Len(accts) |-> ListJoin(accts[k], b)])
    IN  [i \in 1..Len(joined) |->
            [account_id   |-> joined[i].account.id,
             account_name |-> joined[i].account.name,
             account_type |-> joined[i].account.type,
             balance      |-> IFNULL(joined[i].balance, 0)]]

\* SELECT account_id, max(amount, 0) AS positive, min(amount, 0) AS negative FROM entry
SignedEntries(d) ==
    [i \in 1..Len(d.entry) |->
        [account_id |-> d.entry[i].account_id,
         positive   |-> Max2(d.entry[i].amount, 0),
         negative   |-> Min2(d.entry[i].amount, 0)]]

\* One account row LEFT JOINed with the signed entries.
DetailJoin(r, e) ==
    LET m == SelectSeq(e, LAMBDA x : x.account_id = r.id)
    IN  IF m = <<>>
        THEN <<[account |-> r, positive |-> None, negative |-> None]>>
        ELSE [i \in 1..Len(m) |->
                [account |-> r, positive |-> Some(m[i].positive),
                 negative |-> Some(m[i].negative)]]

NonNull(col) ==
    LET some == SelectSeq(col, LAMBDA o : ~IsNone(o))
    IN  [i \in 1..Len(some) |-> Unwrap(some[i])]

\* The one row the aggregate query yields.  It has no GROUP BY, so it yields a
\* row also when no account matches the WHERE clause: the bare columns are then
\* NULL and both sums are 0.
DetailRow(d, account_id) ==
    LET accts == OrderById({a \in d.account : a.id = account_id})
        joined == Flatten([k \in 1..Len(accts) |-> DetailJoin(accts[k], SignedEntries(d))])
    IN  [account_name  |-> IF joined = <<>> THEN None ELSE Some(joined[1].account.name),
         account_type  |-> IF joined = <<>> THEN None ELSE Some(joined[1].account.type),
         total_debits  |-> IFNULL(SqlSum(NonNull([i \in 1..Len(joined) |-> joined[i].positive])), 0),
         total_credits |-> IFNULL(SqlSum(NonNull([i \in 1..Len(joined) |-> joined[i].negative])), 0) * (-1)]

\* fetch_one and the decoding of the row into AccountDetailResult: a NULL is no
\* AccountType.
account_detail_query(d, account_id, fault) ==
    LET row == DetailRow(d, account_id)
    IN  IF fault THEN [status |-> "StorageError"]
        ELSE IF IsNone(row.account_type) THEN [status |-> "ColumnDecode"]
        ELSE [status |-> "Ok",
              account_name  |-> IFNULL(row.account_name, Str(0, 0)),
              account_type  |-> Unwrap(row.account_type),
              total_debits  |-> row.total_debits,
              total_credits |-> row.total_credits]

(***************************************************************************)
(* ledger.rs: validation                                                   *)
(***************************************************************************)
\* account_new: the range check on a supplied id.
AccountIdOutOfRange(id) == id < MinAccountId \/ id > MaxAccountId

\* batch_new: let balance: i64 = journal.entries.iter().map(|e| e.amount).sum();
JournalBalance(journal, overflow_checks) ==
    i64_sum(0, Amounts(journal.entries), overflow_checks)

\* Mutant: only the first journal of the batch is validated.
batch_validate_first_only(journals, overflow_checks) ==
    IF journals = <<>> THEN "Ok"
    ELSE IF len(Head(journals).unstructured_narrative) > MaxNarrativeLen
         THEN "InstructionError"
    ELSE IF JournalBalance(Head(journals), overflow_checks).panic THEN "panic"
    ELSE IF JournalBalance(Head(journals), overflow_checks).value # 0
         THEN "JournalBalanceError"
    ELSE "Ok"

\* Mutant: the balance check is left out.
batch_validate_narrative_only(journals, overflow_checks) ==
    IF \E i \in 1..Len(journals) : len(journals[i].unstructured_narrative) > MaxNarrativeLen
    THEN "InstructionError" ELSE "Ok"

\* batch_new: the validation loop; the first failing check decides, and an
\* overflow panic ends the call.
RECURSIVE batch_validate(_, _)
batch_validate(journals, overflow_checks) ==
    IF journals = <<>> THEN "Ok"
    ELSE IF len(Head(journals).unstructured_narrative) > MaxNarrativeLen
         THEN "InstructionError"
    ELSE IF JournalBalance(Head(journals), overflow_checks).panic THEN "panic"
    ELSE IF JournalBalance(Head(journals), overflow_checks).value # 0
         THEN "JournalBalanceError"
    ELSE batch_validate(Tail(journals), overflow_checks)

(***************************************************************************)
(* Inputs.                                                                 *)
(***************************************************************************)
Ascii140 == Str(140, 140)
Ascii141 == Str(141, 141)
TwoByte71 == Str(71, 142)      \* 71 two-byte characters

IdInputs == {None, Some(0), Some(1), Some(2), Some(990), Some(999), Some(1000)}
NameInputs == {Ascii140, Ascii141, TwoByte71}
TypeInputs == {"Cash", "CurrentLiability", "System"}

Entry(account, amount) == [account |-> account, amount |-> amount]
Journal(narrative, entries) == [unstructured_narrative |-> narrative, entries |-> entries]

JournalInputs ==
    { Journal(Str(0, 0), <<Entry(1, 500), Entry(2, -500)>>),
      Journal(Ascii140,  <<Entry(2, 3), Entry(1, -1), Entry(1, -2)>>),
      Journal(Str(0, 0), <<Entry(1, 7), Entry(1, -7)>>),
      Journal(Str(0, 0), <<>>),
      Journal(Str(0, 0), <<Entry(1, 500), Entry(2, -300)>>),
      Journal(Ascii141,  <<Entry(1, 500), Entry(2, -500)>>),
      Journal(TwoByte71, <<Entry(1, 500), Entry(2, -500)>>),
      Journal(Str(0, 0), <<Entry(1, 4), Entry(3, -4)>>) }

RECURSIVE SeqsUpTo(_, _)
SeqsUpTo(S, n) ==
    IF n = 0 THEN {<<>>}
    ELSE LET shorter == SeqsUpTo(S, n - 1)
         IN  shorter \cup {Append(q, x) : q \in {r \in shorter : Len(r) = n - 1}, x \in S}

BatchInputs == SeqsUpTo(JournalInputs, MaxJournals)
DetailInputs == {1, 2, 3}

\* Calls that are also explored running at the same time as other calls.
ConcurrentBatches == {<<Journal(Str(0, 0), <<Entry(1, 7), Entry(1, -7)>>)>>}

IsConcurrentCall(c) ==
    CASE c.op = "account_new" ->
            /\ c.account_id \in {None, Some(1)}
            /\ c.account_name = Ascii140
            /\ c.account_type \in {"Cash", "CurrentLiability"}
      [] c.op = "batch_new" -> c.journals \in ConcurrentBatches
      [] c.op = "account_list" -> TRUE
      [] c.op = "account_detail" -> c.account_id = 1
      [] OTHER -> FALSE

\* A call starts alone, or beside running calls when all of them are
\* concurrent calls.
MayStart(w, c) ==
    /\ pc[w] = "idle"
    /\ \/ \A v \in Workers \ {w} : pc[v] = "idle"
       \/ /\ IsConcurrentCall(c)
          /\ \A v \in Workers \ {w} : pc[v] = "idle" \/ IsConcurrentCall(call[v])

(***************************************************************************)
(* Workers.                                                                *)
(***************************************************************************)
NoCall == [op |-> "none"]
NoResult == [status |-> "none"]
NoLoc == [this_account_id |-> 0, batch_id |-> 0, journal_id |-> 0,
          journal_ids |-> <<>>, i |-> 0, k |-> 0]

BagAdd(b, x) ==
    [y \in DOMAIN b \cup {x} |->
        (IF y \in DOMAIN b THEN b[y] ELSE 0) + (IF y = x THEN 1 ELSE 0)]

\* The call returns res; a transaction still open is dropped, which rolls it back.
Finish(w, res) ==
    /\ pc' = [pc EXCEPT ![w] = "done"]
    /\ result' = [result EXCEPT ![w] = res]
    /\ tx' = [tx EXCEPT ![w] = NoTx]
    /\ loc' = [loc EXCEPT ![w] = NoLoc]

Goto(w, label) == pc' = [pc EXCEPT ![w] = label]

\* A store call of worker w failed: the error it returns, with the statement it
\* comes from.
StorageError(w) == [status |-> "StorageError", at |-> pc[w]]

\* Mutant: the statement is executed outside the transaction and commits at once.
TxWriteAutocommit(w, d) ==
    /\ tx' = [tx EXCEPT ![w] = AfterWrite(d)]
    /\ db' = d

\* A statement executed on the open transaction leaves the working copy d; the
\* committed database stays as it is until the commit.
TxWrite(w, d) ==
    /\ tx' = [tx EXCEPT ![w] = AfterWrite(d)]
    /\ UNCHANGED db

Start(w, c) ==
    /\ MayStart(w, c)
    /\ call' = [call EXCEPT ![w] = c]

(***************************************************************************)
(* createAccount: ledger::account_new, then db::account_new_tx             *)
(***************************************************************************)
account_new(w, account_id, account_name, account_type) ==
    /\ ncalls < MaxCalls
    /\ Start(w, [op |-> "account_new", account_id |-> account_id,
                 account_name |-> account_name, account_type |-> account_type])
    /\ ncalls' = ncalls + 1
    /\ IF ~IsNone(account_id) /\ AccountIdOutOfRange(Unwrap(account_id))
       THEN Finish(w, [status |-> "InstructionError"])
       ELSE IF len(account_name) > MaxNameLen
       THEN Finish(w, [status |-> "InstructionError"])
       ELSE Goto(w, "an_begin") /\ UNCHANGED <<result, tx, loc>>
    /\ UNCHANGED <<db, allocated, posted>>

\* let mut transaction = db.begin().await?;
an_begin(w) ==
    /\ pc[w] = "an_begin"
    /\ \E fault \in BOOLEAN :
        IF fault THEN Finish(w, StorageError(w))
        ELSE /\ tx' = [tx EXCEPT ![w] = [state |-> "begun"]]
             /\ IF IsNone(call[w].account_id)
                THEN Goto(w, "an_get") /\ UNCHANGED loc
                ELSE /\ Goto(w, "an_insert")
                     /\ loc' = [loc EXCEPT ![w].this_account_id = Unwrap(call[w].account_id)]
             /\ UNCHANGED result
    /\ UNCHANGED <<db, call, ncalls, allocated, posted>>

\* None => settings::get_settings_int(&mut *transaction, name).await.unwrap()
an_get(w) ==
    /\ pc[w] = "an_get"
    /\ \E fault \in BOOLEAN :
        LET r == get_settings_int(TxView(w), next_id_setting_name(call[w].account_type), fault)
        IN  IF r.panic \/ IsNone(r.value)
            THEN Finish(w, [status |-> "panic"])
            ELSE /\ tx' = [tx EXCEPT ![w] = AfterRead(w)]
                 /\ loc' = [loc EXCEPT ![w].this_account_id = Unwrap(r.value)]
                 /\ Goto(w, "an_insert")
                 /\ UNCHANGED result
    /\ UNCHANGED <<db, call, ncalls, allocated, posted>>

\* The row account_new_tx inserts.
AccountRow(w) ==
    [id |-> loc[w].this_account_id, name |-> call[w].account_name,
     type |-> call[w].account_type]

\* Mutant: INSERT OR REPLACE INTO account, as the settings are written.
AccountInsertOrReplace(d, row) ==
    [ok |-> TRUE, account |-> {a \in d.account : a.id # row.id} \cup {row}]

\* INSERT INTO account (id, name, type) VALUES (?, ?, ?): refused when the id is
\* taken, else the table with the new row.
AccountInsert(d, row) ==
    IF AccountIdFree(d, row.id)
    THEN [ok |-> TRUE, account |-> d.account \cup {row}]
    ELSE [ok |-> FALSE, account |-> d.account]

\* The INSERT INTO account: "ok", or the error the store answers with.
account_insert(w, fault) ==
    IF fault \/ SnapshotStale(w) \/ ~AccountInsert(TxView(w), AccountRow(w)).ok
    THEN "error" ELSE "ok"

\* Mutant: the error of the INSERT is dropped and account_new_tx goes on.
InsertErrorIgnored(outcome) == FALSE

\* .execute(&mut *transaction).await?  -- an error ends account_new_tx.
InsertErrorReturns(outcome) == outcome = "error"

an_insert(w) ==
    /\ pc[w] = "an_insert"
    /\ \E fault \in BOOLEAN :
        LET outcome == account_insert(w, fault)
            d == TxView(w)
        IN  IF InsertErrorReturns(outcome)
            THEN Finish(w, StorageError(w)) /\ UNCHANGED db
            ELSE /\ WriteLockFree(w)
                 /\ TxWrite(w, IF outcome = "ok"
                                THEN [d EXCEPT !.account = AccountInsert(d, AccountRow(w)).account]
                                ELSE d)
                 /\ Goto(w, IF IsNone(call[w].account_id) THEN "an_set" ELSE "an_commit")
                 /\ UNCHANGED <<result, loc>>
    /\ UNCHANGED <<call, ncalls, allocated, posted>>

\* if account_id.is_none() { settings::set_settings_int(.., this_account_id + 1).await; }
an_set(w) ==
    /\ pc[w] = "an_set"
    /\ \E fault \in BOOLEAN :
        IF fault THEN Finish(w, [status |-> "panic"]) /\ UNCHANGED db
        ELSE /\ TxWrite(w, set_settings_int(TxView(w),
                                next_id_setting_name(call[w].account_type),
                                loc[w].this_account_id + 1))
             /\ Goto(w, "an_commit")
             /\ UNCHANGED <<result, loc>>
    /\ UNCHANGED <<call, ncalls, allocated, posted>>

\* transaction.commit().await?; Ok(this_account_id)
an_commit(w) ==
    /\ pc[w] = "an_commit"
    /\ \E fault \in BOOLEAN :
        IF fault
        THEN Finish(w, StorageError(w)) /\ UNCHANGED <<db, allocated>>
        ELSE /\ db' = tx[w].work
             /\ Finish(w, [status |-> "Ok", account_id |-> loc[w].this_account_id])
             /\ allocated' = BagAdd(allocated,
                    [id |-> loc[w].this_account_id, type |-> call[w].account_type,
                     auto |-> IsNone(call[w].account_id)])
    /\ UNCHANGED <<call, ncalls, posted>>

(***************************************************************************)
(* postBatch: ledger::batch_new, then db::batch_new_tx                     *)
(***************************************************************************)
batch_new(w, journals) ==
    /\ ncalls < MaxCalls
    /\ Start(w, [op |-> "batch_new", journals |-> journals])
    /\ ncalls' = ncalls + 1
    /\ \E overflow_checks \in BOOLEAN :
        IF batch_validate(journals, overflow_checks) # "Ok"
        THEN Finish(w, [status |-> batch_validate(journals, overflow_checks)])
        ELSE Goto(w, "bn_begin") /\ UNCHANGED <<result, tx, loc>>
    /\ UNCHANGED <<db, allocated, posted>>

\* let mut transaction = db.begin().await?;
bn_begin(w) ==
    /\ pc[w] = "bn_begin"
    /\ \E fault \in BOOLEAN :
        IF fault THEN Finish(w, StorageError(w))
        ELSE /\ tx' = [tx EXCEPT ![w] = [state |-> "begun"]]
             /\ Goto(w, "bn_batch")
             /\ UNCHANGED <<result, loc>>
    /\ UNCHANGED <<db, call, ncalls, allocated, posted>>

\* let batch_id = batch_new(&mut *transaction).await?;
bn_batch(w) ==
    /\ pc[w] = "bn_batch"
    /\ \E fault \in BOOLEAN :
        IF fault THEN Finish(w, StorageError(w)) /\ UNCHANGED db
        ELSE LET d == TxView(w)
                 nd == [d EXCEPT !.batch = Append(@, [id |-> Len(@) + 1])]
             IN  /\ WriteLockFree(w)
                 /\ TxWrite(w, nd)
                 /\ loc' = [loc EXCEPT ![w].batch_id = last_insert_rowid(nd.batch),
                                       ![w].i = 1]
                 /\ Goto(w, IF call[w].journals = <<>> THEN "bn_commit" ELSE "bn_journal")
                 /\ UNCHANGED result
    /\ UNCHANGED <<call, ncalls, allocated, posted>>

\* Mutant: journal_ids.insert(0, journal_id).
NextJournalPrepend(w, l) ==
    /\ loc' = [loc EXCEPT ![w] = [l EXCEPT !.journal_ids = <<l.journal_id>> \o @,
                                           !.i = @ + 1, !.k = 0]]
    /\ Goto(w, IF l.i = Len(call[w].journals) THEN "bn_commit" ELSE "bn_journal")

\* journal_ids.push(journal_id) and the step of the for loop over journals.
NextJournal(w, l) ==
    /\ loc' = [loc EXCEPT ![w] = [l EXCEPT !.journal_ids = Append(@, l.journal_id),
                                           !.i = @ + 1, !.k = 0]]
    /\ Goto(w, IF l.i = Len(call[w].journals) THEN "bn_commit" ELSE "bn_journal")

\* Mutant: the loop over the entries stops before the last one.
EntriesLeftButLast(j, k) == k < Len(j.entries) - 1

\* for entry in journal.entries: there is an entry after the k-th.
EntriesLeft(j, k) == k < Len(j.entries)

\* let journal_id = journal_new(&mut *transaction, batch_id, narrative).await?;
bn_journal(w) ==
    /\ pc[w] = "bn_journal"
    /\ \E fault \in BOOLEAN :
        IF fault THEN Finish(w, StorageError(w)) /\ UNCHANGED db
        ELSE LET d == TxView(w)
                 j == call[w].journals[loc[w].i]
                 nd == [d EXCEPT !.journal = Append(@,
                          [id |-> Len(@) + 1, batch_id |-> loc[w].batch_id,
                           unstructured_narrative |-> j.unstructured_narrative])]
                 l == [loc[w] EXCEPT !.journal_id = last_insert_rowid(nd.journal), !.k = 1]
             IN  /\ TxWrite(w, nd)
                 /\ IF ~EntriesLeft(j, 0)
                    THEN NextJournal(w, l)
                    ELSE loc' = [loc EXCEPT ![w] = l] /\ Goto(w, "bn_entry")
                 /\ UNCHANGED result
    /\ UNCHANGED <<call, ncalls, allocated, posted>>

\* The INSERT INTO entry: "ok", or the error the store answers with.
entry_insert(d, account_id, fault) ==
    IF fault \/ ~ForeignKeyOk(d, account_id) THEN "error" ELSE "ok"

\* Mutant: the error of the INSERT is dropped and batch_new_tx goes on.
EntryErrorIgnored(outcome) == FALSE

\* journal_entry_new(..).await?  -- an error ends batch_new_tx.
EntryErrorReturns(outcome) == outcome = "error"

\* journal_entry_new(&mut *transaction, journal_id, entry.account, entry.amount).await?;
bn_entry(w) ==
    /\ pc[w] = "bn_entry"
    /\ \E fault \in BOOLEAN :
        LET d == TxView(w)
            j == call[w].journals[loc[w].i]
            e == j.entries[loc[w].k]
            outcome == entry_insert(d, e.account, fault)
            nd == [d EXCEPT !.entry = Append(@,
                     [id |-> Len(@) + 1, journal_id |-> loc[w].journal_id,
                      account_id |-> e.account, amount |-> e.amount])]
        IN  IF EntryErrorReturns(outcome)
            THEN Finish(w, StorageError(w)) /\ UNCHANGED db
            ELSE /\ TxWrite(w, IF outcome = "ok" THEN nd ELSE d)
                 /\ IF ~EntriesLeft(j, loc[w].k)
                    THEN NextJournal(w, loc[w])
                    ELSE loc' = [loc EXCEPT ![w].k = @ + 1] /\ UNCHANGED pc
                 /\ UNCHANGED result
    /\ UNCHANGED <<call, ncalls, allocated, posted>>

\* What the operation's caller gets of batch_new_tx's Ok((batch_id, journal_ids)):
\* batch_new hands it on, journal_new returns *(..).1.index(0).
batch_result(op, r) ==
    IF op = "journal_new"
    THEN [status |-> "Ok", journal_id |-> r.journal_ids[1]]
    ELSE r

\* transaction.commit().await?; Ok((batch_id, journal_ids))
bn_commit(w) ==
    /\ pc[w] = "bn_commit"
    /\ \E fault \in BOOLEAN :
        IF fault
        THEN Finish(w, StorageError(w)) /\ UNCHANGED <<db, posted>>
        ELSE /\ db' = tx[w].work
             /\ Finish(w, batch_result(call[w].op,
                                       [status |-> "Ok", batch_id |-> loc[w].batch_id,
                                        journal_ids |-> loc[w].journal_ids]))
             /\ posted' = Append(posted, call[w].journals)
    /\ UNCHANGED <<call, ncalls, allocated>>

\* ledger::journal_new, the wrapper that posts a batch of the one journal.
journal_new(w, unstructured_narrative, entries) ==
    LET journals == <<Journal(unstructured_narrative, entries)>>
    IN  /\ ncalls < MaxCalls
        /\ Start(w, [op |-> "journal_new", journals |-> journals])
        /\ ncalls' = ncalls + 1
        /\ \E overflow_checks \in BOOLEAN :
            IF batch_validate(journals, overflow_checks) # "Ok"
            THEN Finish(w, [status |-> batch_validate(journals, overflow_checks)])
            ELSE Goto(w, "bn_begin") /\ UNCHANGED <<result, tx, loc>>
        /\ UNCHANGED <<db, allocated, posted>>

(***************************************************************************)
(* listAccounts and accountDetail: one query on the pool each              *)
(***************************************************************************)
AccountSummary(r) ==
    [account_id |-> r.account_id, account_name |-> r.account_name,
     account_type |-> r.account_type, account_balance |-> r.balance]

ledger_account_list(d) ==
    LET results == account_list_query(d)
    IN  [i \in 1..Len(results) |-> AccountSummary(results[i])]

\* Mutant: the pool's connection reads the rows an open transaction has written
\* (read uncommitted).
PoolViewDirty ==
    IF \E v \in Workers : tx[v].state = "write"
    THEN tx[CHOOSE v \in Workers : tx[v].state = "write"].work
    ELSE db

\* What a query executed on the pool, outside any transaction, reads: the
\* committed database.
PoolView == db

\* History: the successful postings and account creations committed so far.
Committed == [posted |-> Len(posted), allocated |-> allocated]

account_list(w) ==
    /\ Start(w, [op |-> "account_list"])
    /\ \E fault \in BOOLEAN :
        Finish(w, IF fault THEN [status |-> "StorageError"]
                  ELSE [status |-> "Ok", accounts |-> ledger_account_list(PoolView),
                        seen |-> Committed])
    /\ UNCHANGED <<db, ncalls, allocated, posted>>

\* Mutant: the balance adds the credits instead of subtracting them.
ledger_account_detail_adds(d, account_id, fault) ==
    LET r == account_detail_query(d, account_id, fault)
    IN  IF r.status # "Ok" THEN r
        ELSE [status |-> "Ok",
              account_id |-> account_id,
              account_name |-> r.account_name,
              account_type |-> r.account_type,
              total_credits |-> r.total_credits,
              total_debits |-> r.total_debits,
              balance |-> r.total_debits + r.total_credits]

ledger_account_detail(d, account_id, fault) ==
    LET r == account_detail_query(d, account_id, fault)
    IN  IF r.status # "Ok" THEN r
        ELSE [status |-> "Ok",
              account_id |-> account_id,
              account_name |-> r.account_name,
              account_type |-> r.account_type,
              total_credits |-> r.total_credits,
              total_debits |-> r.total_debits,
              balance |-> r.total_debits - r.total_credits]

account_detail(w, account_id) ==
    /\ Start(w, [op |-> "account_detail", account_id |-> account_id])
    /\ \E fault \in BOOLEAN :
        Finish(w, ledger_account_detail(PoolView, account_id, fault) @@ [seen |-> Committed])
    /\ UNCHANGED <<db, ncalls, allocated, posted>>

\* The caller takes the result; the worker is free for the next request.
Return(w) ==
    /\ pc[w] = "done"
    /\ pc' = [pc EXCEPT ![w] = "idle"]
    /\ call' = [call EXCEPT ![w] = NoCall]
    /\ result' = [result EXCEPT ![w] = NoResult]
    /\ UNCHANGED <<db, tx, loc, ncalls, allocated, posted>>

(***************************************************************************)
(* The specification.                                                      *)
(***************************************************************************)
\* The store after the migrations: no rows but the account id sequences of the
\* types accounts are created for through the API (System has none).
InitCounters == {1, 2}

InitDb(liability) ==
    [account  |-> {},
     settings |-> (next_id_setting_name("Cash") :> Some(1))
                  @@ (next_id_setting_name("CurrentLiability") :> Some(liability)),
     batch    |-> <<>>,
     journal  |-> <<>>,
     entry    |-> <<>>]

Init ==
    /\ \E l \in InitCounters : db = InitDb(l)
    /\ tx = [w \in Workers |-> NoTx]
    /\ pc = [w \in Workers |-> "idle"]
    /\ call = [w \in Workers |-> NoCall]
    /\ loc = [w \in Workers |-> NoLoc]
    /\ result = [w \in Workers |-> NoResult]
    /\ ncalls = 0
    /\ allocated = <<>>
    /\ posted = <<>>

Next ==
    \E w \in Workers :
        \/ \E i \in IdInputs, n \in NameInputs, t \in TypeInputs : account_new(w, i, n, t)
        \/ an_begin(w)
        \/ an_get(w)
        \/ an_insert(w)
        \/ an_set(w)
        \/ an_commit(w)
        \/ \E js \in BatchInputs : batch_new(w, js)
        \/ \E j \in JournalInputs : journal_new(w, j.unstructured_narrative, j.entries)
        \/ bn_begin(w)
        \/ bn_batch(w)
        \/ bn_journal(w)
        \/ bn_entry(w)
        \/ bn_commit(w)
        \/ account_list(w)
        \/ \E a \in DetailInputs : account_detail(w, a)
        \/ Return(w)

Spec == Init /\ [][Next]_vars

(***************************************************************************)
(* services.rs: the balance-sheet report, built from the account list      *)
(***************************************************************************)
MaxReportAccounts == 2
ReportBalances == {-50, 0, 100}

\* A closure |a| ... over the account summaries, as the function it computes on
\* the summaries of the list it is applied to.
Elems(accounts) == {accounts[i] : i \in 1..Len(accounts)}

filter_accounts_list(accounts, f) == SelectSeq(accounts, LAMBDA a : f[a])

sum_filter_accounts_list(accounts, f) ==
    LET kept == SelectSeq(accounts, LAMBDA a : f[a])
    IN  SeqSum([i \in 1..Len(kept) |-> kept[i].account_balance])

IsCash(a) == a.account_type = "Cash"

\* Mutant: the Cash accounts are listed among the current assets too.
IsListedCurrentAssetOrCash(a) ==
    a.account_type \in {"Cash", "CurrentAsset", "Inventory", "Prepayments"}

\* The accounts listed in the current_assets section.
IsListedCurrentAsset(a) ==
    CASE a.account_type = "CurrentAsset" -> TRUE
      [] a.account_type = "Inventory" -> TRUE
      [] a.account_type = "Prepayments" -> TRUE
      [] OTHER -> FALSE

\* The accounts summed into total_current_assets.
IsTotalCurrentAsset(a) ==
    CASE a.account_type = "Cash" -> TRUE
      [] a.account_type = "CurrentAsset" -> TRUE
      [] a.account_type = "Inventory" -> TRUE
      [] a.account_type = "Prepayments" -> TRUE
      [] OTHER -> FALSE

IsCurrentLiability(a) == a.account_type = "CurrentLiability"

\* The template context report_balance_sheet fills from the account list.
BalanceSheetContext(accounts) ==
    LET total_current_assets == sum_filter_accounts_list(accounts, [a \in Elems(accounts) |-> IsTotalCurrentAsset(a)])
        total_current_liabilities == sum_filter_accounts_list(accounts, [a \in Elems(accounts) |-> IsCurrentLiability(a)])
    IN  [cash |-> filter_accounts_list(accounts, [a \in Elems(accounts) |-> IsCash(a)]),
         total_cash |-> sum_filter_accounts_list(accounts, [a \in Elems(accounts) |-> IsCash(a)]),
         current_assets |-> filter_accounts_list(accounts, [a \in Elems(accounts) |-> IsListedCurrentAsset(a)]),
         total_current_assets |-> total_current_assets,
         current_liabilities |-> filter_accounts_list(accounts, [a \in Elems(accounts) |-> IsCurrentLiability(a)]),
         total_current_liabilities |-> total_current_liabilities,
         net_assets |-> total_current_assets + total_current_liabilities]

\* The handler, from the account list ledger::account_list gave it.
report_balance_sheet(w) ==
    /\ pc[w] = "rb_build"
    /\ Finish(w, [status |-> "Ok", ctx |-> BalanceSheetContext(call[w].accounts)])
    /\ UNCHANGED <<db, call, ncalls, allocated, posted>>

\* Account lists: one summary per account id, of any type.
ReportSummaries(n) ==
    [1..n -> {[type |-> t, balance |-> b] : t \in AccountType, b \in ReportBalances}]

ReportAccountLists ==
    UNION { { [i \in 1..n |->
                [account_id |-> i, account_name |-> Ascii140,
                 account_type |-> f[i].type, account_balance |-> f[i].balance]] :
              f \in ReportSummaries(n) } : n \in 0..MaxReportAccounts }

\* Worker 1 is in report_balance_sheet and holds an account list.
InitReport ==
    /\ db = InitDb(1)
    /\ tx = [w \in Workers |-> NoTx]
    /\ \E accounts \in ReportAccountLists :
        call = [w \in Workers |->
                 IF w = 1 THEN [op |-> "report_balance_sheet", accounts |-> accounts]
                 ELSE NoCall]
    /\ pc = [w \in Workers |-> IF w = 1 THEN "rb_build" ELSE "idle"]
    /\ loc = [w \in Workers |-> NoLoc]
    /\ result = [w \in Workers |-> NoResult]
    /\ ncalls = 0
    /\ allocated = <<>>
    /\ posted = <<>>

NextReport == \E w \in Workers : report_balance_sheet(w) \/ Return(w)

SpecReport == InitReport /\ [][NextReport]_vars

(***************************************************************************)
(* What the history of successful postings says the ledger holds.          *)
(***************************************************************************)
PostedJournals(p) == Flatten(p)
PostedEntries(p) ==
    LET js == PostedJournals(p) IN Flatten([i \in 1..Len(js) |-> js[i].entries])

\* The amounts posted against account a that satisfy Keep, summed.
PostedSum(p, a, Keep(_)) ==
    LET es == SelectSeq(PostedEntries(p), LAMBDA e : e.account = a /\ Keep(e.amount))
    IN  SeqSum(Amounts(es))

PostedDebits(p, a) == PostedSum(p, a, LAMBDA x : x > 0)
PostedCredits(p, a) == 0 - PostedSum(p, a, LAMBDA x : x < 0)
PostedBalance(p, a) == PostedSum(p, a, LAMBDA x : TRUE)

\* The call of worker w has returned and the caller has not yet taken the result.
Returned(w, op) == pc[w] = "done" /\ call[w].op = op

\* Worker w takes a step that starts and finishes a call of op.
Answers(w, op) == pc[w] = "idle" /\ pc'[w] = "done" /\ call'[w].op = op

SumsToZero(j) == SeqSum(Amounts(j.entries)) = 0

(***************************************************************************)
(* C1.  postBatch succeeds if and only if every journal of the batch, on   *)
(* its own, has entry amounts summing to 0 and a narrative of at most 140  *)
(* characters.  Calls the store failed are left aside (see C3).            *)
(***************************************************************************)
C1_PostSucceedsIffBalancedAndShort ==
    \A w \in Workers :
        (Returned(w, "batch_new") /\ result[w].status # "StorageError")
        => (result[w].status = "Ok"
            <=> \A i \in 1..Len(call[w].journals) :
                    /\ SumsToZero(call[w].journals[i])
                    /\ call[w].journals[i].unstructured_narrative.chars <= 140)

(***************************************************************************)
(* C2.  A postBatch with a journal whose narrative is longer than 140 or   *)
(* whose entries do not sum to 0 is rejected by validation and writes      *)
(* nothing, also for the valid journals of the batch: the call opens no    *)
(* transaction, and the store and the listAccounts balances are what they  *)
(* were before the call.                                                   *)
(***************************************************************************)
HasInvalidJournal(journals) ==
    \E i \in 1..Len(journals) :
        \/ len(journals[i].unstructured_narrative) > 140
        \/ ~SumsToZero(journals[i])

C2_RejectedBatchWritesNothing ==
    [][\A w \in Workers :
        (pc'[w] # pc[w] /\ call'[w].op = "batch_new" /\ HasInvalidJournal(call'[w].journals))
        => /\ pc'[w] = "done"
           /\ result'[w].status \in {"InstructionError", "JournalBalanceError"}
           /\ tx'[w] = NoTx
           /\ db' = db
           /\ ledger_account_list(db') = ledger_account_list(db)]_vars

\* A rejected batch whose first journal is valid, in a store that holds rows.
C2_Witness ==
    \E w \in Workers :
        /\ Returned(w, "batch_new")
        /\ Len(call[w].journals) = 2
        /\ ~HasInvalidJournal(<<call[w].journals[1]>>)
        /\ call[w].journals[1].entries # <<>>
        /\ result[w].status = "JournalBalanceError"
        /\ db.entry # <<>>

(***************************************************************************)
(* C3.  A storage failure at any step of the posting transaction aborts it *)
(* as a whole: the call returns the error, its transaction is gone, and    *)
(* the committed batch, journal and entry rows are exactly those of the    *)
(* postings that succeeded.                                                *)
(***************************************************************************)
RowsOf(table) == {table[i] : i \in 1..Len(table)}

CommittedRowsArePosted(d, p) ==
    /\ Len(d.batch) = Len(p)
    /\ Len(d.journal) = Len(PostedJournals(p))
    /\ Len(d.entry) = Len(PostedEntries(p))
    /\ \A i \in 1..Len(d.journal) :
        d.journal[i].unstructured_narrative = PostedJournals(p)[i].unstructured_narrative
    /\ \A i \in 1..Len(d.entry) :
        /\ d.entry[i].account_id = PostedEntries(p)[i].account
        /\ d.entry[i].amount = PostedEntries(p)[i].amount

C3_StorageFailureAbortsAll ==
    /\ CommittedRowsArePosted(db, posted)
    /\ \A w \in Workers :
        (Returned(w, "batch_new") /\ result[w].status = "StorageError") => tx[w] = NoTx

\* The commit of a posting with a journal and entries failed; nothing of it is stored.
C3_Witness ==
    \E w \in Workers :
        /\ Returned(w, "batch_new")
        /\ result[w].status = "StorageError"
        /\ result[w].at = "bn_commit"
        /\ Len(call[w].journals) = 2
        /\ call[w].journals[2].entries # <<>>
        /\ db.batch = <<>>

(***************************************************************************)
(* C4.  In every reachable state each stored journal's entry amounts sum   *)
(* to exactly zero.                                                        *)
(***************************************************************************)
StoredJournalSum(d, journal_id) ==
    SeqSum(Amounts(SelectSeq(d.entry, LAMBDA e : e.journal_id = journal_id)))

C5_AutoIdsDistinct ==
    \A k \in DOMAIN allocated : k.auto => allocated[k] = 1

\* Worker v has read the counter value that worker w's call, still not
\* taken by its caller, was given as its id.
C5_Witness ==
    \E w \in Workers, v \in Workers :
        /\ Returned(w, "account_new") /\ result[w].status = "Ok"
        /\ IsNone(call[w].account_id)
        /\ pc[v] = "an_insert"
        /\ IsNone(call[v].account_id)
        /\ call[v].account_type = call[w].account_type
        /\ loc[v].this_account_id = result[w].account_id

(***************************************************************************)
(* C6.  createAccount with a supplied id fails with a validation error     *)
(* when id < 1 or id > 999, and for every supplied id with 1 <= id <= 999  *)
(* that is not in use, and a name of at most 140 (one-byte) characters, it *)
(* succeeds and returns that id.                                           *)
(***************************************************************************)
C6_SuppliedIdRange ==
    \A w \in Workers :
        (Returned(w, "account_new") /\ ~IsNone(call[w].account_id))
        => LET id == Unwrap(call[w].account_id)
           IN  /\ (id < 1 \/ id > 999) => result[w].status = "InstructionError"
               /\ (/\ 1 <= id /\ id <= 999
                   /\ call[w].account_name.bytes <= 140
                   /\ result[w].status \notin {"StorageError"})
                  => (result[w].status = "Ok" /\ result[w].account_id = id)

(***************************************************************************)
(* C7.  accountDetail of an existing account returns totalDebits = the sum *)
(* of the positive amounts posted to it, totalCredits = the absolute value *)
(* of the sum of the negative amounts posted to it, and balance =          *)
(* totalDebits - totalCredits.                                             *)
(***************************************************************************)
C7_DetailTotals ==
    [][\A w \in Workers :
        Answers(w, "account_detail")
        => LET a == call'[w].account_id
           IN  /\ (\E r \in db.account : r.id = a)
                    => result'[w].status \in {"Ok", "StorageError"}
               /\ result'[w].status = "Ok"
                    => /\ result'[w].total_debits = PostedDebits(posted, a)
                       /\ result'[w].total_credits = PostedCredits(posted, a)
                       /\ result'[w].balance =
                            PostedDebits(posted, a) - PostedCredits(posted, a)]_vars

\* After [+500 to 1, -500 to 2] and [+7 to 1, -7 to 1]: account 1 is 507/7/500.
C7_Witness ==
    \E w \in Workers :
        /\ Returned(w, "account_detail")
        /\ result[w].status = "Ok"
        /\ result[w].total_debits = 507
        /\ result[w].total_credits = 7
        /\ result[w].balance = 500

(***************************************************************************)
(* C8.  listAccounts returns exactly one summary per existing account,     *)
(* whose balance is the sum of all entry amounts posted against it; an     *)
(* account without entries is listed with balance 0.                       *)
(***************************************************************************)
C8_ListOnePerAccount ==
    [][\A w \in Workers :
        (Answers(w, "account_list") /\ result'[w].status = "Ok")
        => LET rows == result'[w].accounts
           IN  /\ \A a \in db.account :
                    \E i \in 1..Len(rows) :
                        /\ rows[i] = [account_id |-> a.id, account_name |-> a.name,
                                      account_type |-> a.type,
                                      account_balance |-> PostedBalance(posted, a.id)]
                        /\ \A k \in 1..Len(rows) : rows[k].account_id = a.id => k = i
               /\ \A i \in 1..Len(rows) : \E a \in db.account : a.id = rows[i].account_id]_vars

\* A list of two accounts: one with several entries, one with none.
C8_Witness ==
    \E w \in Workers :
        /\ Returned(w, "account_list")
        /\ result[w].status = "Ok"
        /\ Len(result[w].accounts) = 2
        /\ \E i, k \in 1..Len(result[w].accounts) :
            /\ Len(SelectSeq(db.entry,
                    LAMBDA e : e.account_id = result[w].accounts[i].account_id)) >= 2
            /\ result[w].accounts[k].account_balance = 0
            /\ \A n \in 1..Len(db.entry) :
                db.entry[n].account_id # result[w].accounts[k].account_id

(***************************************************************************)
(* C9.  accountDetail of an id that no account has fails with a not-found  *)
(* error ("no such account").  Calls the store failed are left aside.      *)
(***************************************************************************)
C9_MissingAccountNotFound ==
    \A w \in Workers :
        (/\ Returned(w, "account_detail")
         /\ \A a \in db.account : a.id # call[w].account_id
         /\ result[w].status # "StorageError")
        => result[w].status = "RowNotFound"

(***************************************************************************)
(* C10 as claimed.  In the balance-sheet report each section lists exactly *)
(* the accounts whose type is in the section's type set (cash = {Cash};    *)
(* currentAssets = {Cash, CurrentAsset, Inventory, Prepayments};           *)
(* currentLiabilities = {CurrentLiability}), and each section's subtotal   *)
(* is the sum of the balances of the accounts in its list.                 *)
(***************************************************************************)
OfTypes(accounts, types) == SelectSeq(accounts, LAMBDA a : a.account_type \in types)
SumBalances(accounts) == SeqSum([i \in 1..Len(accounts) |-> accounts[i].account_balance])

CurrentAssetTypes == {"Cash", "CurrentAsset", "Inventory", "Prepayments"}

C10_SectionsAsClaimed ==
    \A w \in Workers :
        Returned(w, "report_balance_sheet")
        => LET ctx == result[w].ctx
               accounts == call[w].accounts
           IN  /\ ctx.cash = OfTypes(accounts, {"Cash"})
               /\ ctx.current_assets = OfTypes(accounts, CurrentAssetTypes)
               /\ ctx.current_liabilities = OfTypes(accounts, {"CurrentLiability"})
               /\ ctx.total_cash = SumBalances(ctx.cash)
               /\ ctx.total_current_assets = SumBalances(ctx.current_assets)
               /\ ctx.total_current_liabilities = SumBalances(ctx.current_liabilities)

(***************************************************************************)
(* C10 as amended.  The cash section lists the Cash accounts and the       *)
(* currentLiabilities section the CurrentLiability accounts, each with the *)
(* sum of its members' balances as subtotal.  The currentAssets section    *)
(* lists the CurrentAsset, Inventory and Prepayments accounts, not the     *)
(* Cash accounts; totalCurrentAssets is the sum of the balances of the     *)
(* accounts of the cash and the currentAssets sections together.           *)
(***************************************************************************)
C10_Sections ==
    \A w \in Workers :
        Returned(w, "report_balance_sheet")
        => LET ctx == result[w].ctx
               accounts == call[w].accounts
           IN  /\ ctx.cash = OfTypes(accounts, {"Cash"})
               /\ ctx.current_assets = OfTypes(accounts, CurrentAssetTypes \ {"Cash"})
               /\ ctx.current_liabilities = OfTypes(accounts, {"CurrentLiability"})
               /\ ctx.total_cash = SumBalances(ctx.cash)
               /\ ctx.total_current_assets =
                    SumBalances(ctx.cash) + SumBalances(ctx.current_assets)
               /\ ctx.total_current_liabilities = SumBalances(ctx.current_liabilities)

\* The report of a Cash account with balance 100 and a CurrentLiability
\* account with balance -50.
C10_Witness ==
    \E w \in Workers :
        /\ Returned(w, "report_balance_sheet")
        /\ Len(result[w].ctx.cash) = 1
        /\ Len(result[w].ctx.current_liabilities) = 1
        /\ result[w].ctx.total_cash = 100
        /\ result[w].ctx.total_current_assets = 100
        /\ result[w].ctx.total_current_liabilities = -50
        /\ result[w].ctx.net_assets = 50

(***************************************************************************)
(* C11.  Transactions cannot be posted to accounts of type System: no      *)
(* stored entry has an account_id that refers to an account whose type is  *)
(* System.                                                                 *)
(***************************************************************************)
C11_NoEntryOnSystemAccount ==
    \A i \in 1..Len(db.entry) :
        \A a \in db.account : a.id = db.entry[i].account_id => a.type # "System"

(***************************************************************************)
(* C12.  Every stored entry's account_id is the id of an existing account, *)
(* and a postBatch with an entry naming an account id that does not exist  *)
(* fails and commits no rows, also when its journals balance.              *)
(***************************************************************************)
AccountIds(d) == {a.id : a \in d.account}

EntriesReferenceAccounts(d) ==
    \A i \in 1..Len(d.entry) : d.entry[i].account_id \in AccountIds(d)

NamesMissingAccount(journals, d) ==
    \E i \in 1..Len(journals) : \E k \in 1..Len(journals[i].entries) :
        journals[i].entries[k].account \notin AccountIds(d)

C12_EntriesReferenceAccounts ==
    [][/\ EntriesReferenceAccounts(db')
       /\ \A w \in Workers :
            (/\ pc[w] # "done" /\ pc'[w] = "done"
             /\ call'[w].op = "batch_new"
             /\ NamesMissingAccount(call'[w].journals, db'))
            => /\ result'[w].status # "Ok"
               /\ tx'[w] = NoTx
               /\ db' = db]_vars

\* A balanced batch failed at an entry that names a missing account, after an
\* entry of the same journal that names an existing one; the store holds entries.
C12_Witness ==
    \E w \in Workers :
        /\ Returned(w, "batch_new")
        /\ \A overflow_checks \in BOOLEAN :
            batch_validate(call[w].journals, overflow_checks) = "Ok"
        /\ result[w].status = "StorageError"
        /\ result[w].at = "bn_entry"
        /\ \E i \in 1..Len(call[w].journals) :
            LET es == call[w].journals[i].entries
            IN  /\ Len(es) >= 2
                /\ es[1].account \in AccountIds(db)
                /\ es[2].account \notin AccountIds(db)
        /\ db.entry # <<>>

(***************************************************************************)
(* C13.  No two accounts share an id, whether the ids were supplied by the *)
(* caller or allocated from a counter; and an account that exists stays as *)
(* it is: no step of any operation changes its id, name or type or removes *)
(* it.                                                                     *)
(***************************************************************************)
UniqueIds(d) == \A a \in d.account : \A b \in d.account : a.id = b.id => a = b

C13_AccountsUniqueAndImmutable ==
    [][/\ UniqueIds(db')
       /\ \A a \in db.account : a \in db'.account]_vars

\* An allocated and a supplied account exist, and a createAccount that supplied
\* the id of one of them with another type was refused by the store.
C13_Witness ==
    /\ \E k \in DOMAIN allocated : k.auto
    /\ \E k \in DOMAIN allocated : ~k.auto
    /\ \E w \in Workers :
        /\ Returned(w, "account_new")
        /\ ~IsNone(call[w].account_id)
        /\ result[w].status = "StorageError"
        /\ result[w].at = "an_insert"
        /\ \E a \in db.account :
            a.id = Unwrap(call[w].account_id) /\ a.type # call[w].account_type

(***************************************************************************)
(* C14.  A successful postBatch on n journals returns n journal ids; the   *)
(* i-th id is the id of the stored journal that carries the i-th input     *)
(* journal's narrative and, in input order, its entries, under the         *)
(* returned batch id, which is the id of the one new batch row; journal    *)
(* and entry ids increase with the input position.  The single-journal     *)
(* wrapper returns the id of the one journal it created.                   *)
(***************************************************************************)
\* The entry rows of journal journal_id in ascending id, as (account, amount).
StoredEntries(d, journal_id) ==
    LET es == SelectSeq(OrderById(RowsOf(d.entry)), LAMBDA e : e.journal_id = journal_id)
    IN  [k \in 1..Len(es) |-> Entry(es[k].account_id, es[k].amount)]

\* The journal row id is new, belongs to batch_id and carries journal j.
StoresJournal(d0, d, id, batch_id, j) ==
    /\ \A r \in RowsOf(d0.journal) : r.id # id
    /\ Cardinality({r \in RowsOf(d.journal) : r.id = id}) = 1
    /\ \A r \in RowsOf(d.journal) :
        r.id = id => /\ r.batch_id = batch_id
                     /\ r.unstructured_narrative = j.unstructured_narrative
    /\ StoredEntries(d, id) = j.entries

\* The rows of journal a come before the rows of journal b.
WrittenBefore(d, a, b) ==
    /\ a < b
    /\ \A e \in RowsOf(d.entry) : \A f \in RowsOf(d.entry) :
        (e.journal_id = a /\ f.journal_id = b) => e.id < f.id

C14_ReturnsJournalIdsInOrder ==
    [][\A w \in Workers :
        (pc[w] = "bn_commit" /\ pc'[w] = "done" /\ result'[w].status = "Ok")
        => LET js == call[w].journals
               r == result'[w]
           IN  IF call[w].op = "journal_new"
               THEN /\ Len(db'.batch) = Len(db.batch) + 1
                    /\ StoresJournal(db, db', r.journal_id, db'.batch[Len(db'.batch)].id, js[1])
               ELSE /\ Len(r.journal_ids) = Len(js)
                    /\ \A b \in RowsOf(db.batch) : b.id # r.batch_id
                    /\ Cardinality({b \in RowsOf(db'.batch) : b.id = r.batch_id}) = 1
                    /\ \A i \in 1..Len(js) :
                        StoresJournal(db, db', r.journal_ids[i], r.batch_id, js[i])
                    /\ \A i \in 1..Len(js) : \A k \in 1..Len(js) :
                        i < k => WrittenBefore(db', r.journal_ids[i], r.journal_ids[k])]_vars

\* The second posting of the store returned: a batch of two different journals,
\* stored as journals 2 and 3 of batch 2.
C14_Witness ==
    \E w \in Workers :
        /\ Returned(w, "batch_new")
        /\ result[w].status = "Ok"
        /\ Len(call[w].journals) = 2
        /\ call[w].journals[1] # call[w].journals[2]
        /\ call[w].journals[1].entries # <<>>
        /\ result[w].batch_id = 2
        /\ result[w].journal_ids = <<2, 3>>
        /\ StoredEntries(db, 2) = call[w].journals[1].entries

(***************************************************************************)
(* C15.  createAccount with the id omitted, for a type whose sequence      *)
(* setting nextAccount<Type> does not exist or holds no integer, returns a *)
(* NotFoundError as an error value (it does not crash the worker) and      *)
(* leaves the accounts and the settings as they are.  Calls the store      *)
(* failed are left aside.                                                  *)
(***************************************************************************)
NoCounter(d, account_type) ==
    \/ next_id_setting_name(account_type) \notin DOMAIN d.settings
    \/ IsNone(d.settings[next_id_setting_name(account_type)])

C15_MissingCounterIsNotFound ==
    \A w \in Workers :
        (/\ Returned(w, "account_new")
         /\ IsNone(call[w].account_id)
         /\ len(call[w].account_name) <= 140
         /\ NoCounter(db, call[w].account_type)
         /\ result[w].status # "StorageError")
        => /\ result[w].status = "NotFoundError"
           /\ tx[w] = NoTx

(***************************************************************************)
(* C16.  Reads have no effect on the ledger.  A listAccounts or            *)
(* accountDetail call leaves every account, setting, batch, journal and    *)
(* entry row, and every open transaction, as it is; and it returns what an *)
(* earlier call of the same read returned (ids, names, types, balances and *)
(* totals) when no posting or account creation has committed in between.   *)
(***************************************************************************)
IsRead(c) == c.op \in {"account_list", "account_detail"}

C16_ReadsHaveNoEffect ==
    [][\A w \in Workers :
        (pc[w] = "idle" /\ pc'[w] = "done" /\ IsRead(call'[w]))
        => /\ db' = db
           /\ \A v \in Workers \ {w} : tx'[v] = tx[v]
           /\ \A v \in Workers \ {w} :
                (/\ pc[v] = "done" /\ call[v] = call'[w]
                 /\ result[v].status = "Ok" /\ result'[w].status = "Ok"
                 /\ result[v].seen = result'[w].seen)
                => result'[w] = result[v]]_vars

\* Two callers hold the answers of two listAccounts calls on a ledger of two
\* accounts with entries, with no commit between the calls.
C16_Witness ==
    \E w \in Workers : \E v \in Workers \ {w} :
        /\ Returned(w, "account_list") /\ Returned(v, "account_list")
        /\ result[w].status = "Ok" /\ result[v].status = "Ok"
        /\ result[w].seen = result[v].seen
        /\ Len(result[w].accounts) = 2
        /\ \E i \in 1..Len(result[w].accounts) : result[w].accounts[i].account_balance # 0

(***************************************************************************)
(* C17.  A successful createAccount with the id omitted for type T returns *)
(* the value the counter nextAccount<T> held and leaves that counter at    *)
(* that value plus one, with all other settings unchanged; no other step   *)
(* of a createAccount, in particular none of a createAccount with a        *)
(* supplied id, successful or not, changes any setting.                    *)
(***************************************************************************)
C17_CounterAdvancesByOne ==
    [][\A w \in Workers :
        (pc'[w] # pc[w] /\ call'[w].op = "account_new")
        => IF IsNone(call'[w].account_id) /\ pc'[w] = "done" /\ result'[w].status = "Ok"
           THEN LET name == next_id_setting_name(call'[w].account_type)
                IN  /\ name \in DOMAIN db.settings
                    /\ db.settings[name] = Some(result'[w].account_id)
                    /\ DOMAIN db'.settings = DOMAIN db.settings
                    /\ db'.settings[name] = Some(result'[w].account_id + 1)
                    /\ \A n \in DOMAIN db.settings \ {name} : db'.settings[n] = db.settings[n]
           ELSE db'.settings = db.settings]_vars

\* Beside an account with a supplied id, a CurrentLiability account was
\* allocated id 2: the counter went from 2 to 3 and the Cash counter is still 1.
C17_Witness ==
    /\ \E k \in DOMAIN allocated : ~k.auto
    /\ \E w \in Workers :
        /\ Returned(w, "account_new")
        /\ IsNone(call[w].account_id)
        /\ call[w].account_type = "CurrentLiability"
        /\ result[w].status = "Ok"
        /\ result[w].account_id = 2
        /\ db.settings[next_id_setting_name("CurrentLiability")] = Some(3)
        /\ db.settings[next_id_setting_name("Cash")] = Some(1)

(***************************************************************************)
(* C18.  The batch/journal/entry log is append-only.  Every step leaves    *)
(* the committed batch, journal and entry rows there are unchanged; the    *)
(* step that ends a successful postBatch (or single-journal post) adds one *)
(* batch row, one journal row per input journal and one entry row per      *)
(* input entry, all with new ids; every other step of a postBatch, and     *)
(* every step of a createAccount or a read, adds none.                     *)
(***************************************************************************)
Ids(table) == {table[i].id : i \in 1..Len(table)}

\* Table t1 is table t0 with n rows added under ids t0 does not use.
Appended(t0, t1, n) ==
    /\ RowsOf(t0) \subseteq RowsOf(t1)
    /\ Len(t1) = Len(t0) + n
    /\ Cardinality(Ids(t1)) = Cardinality(Ids(t0)) + n

IsPosting(c) == c.op \in {"batch_new", "journal_new"}

C18_LogAppendOnly ==
    [][/\ RowsOf(db.batch) \subseteq RowsOf(db'.batch)
       /\ RowsOf(db.journal) \subseteq RowsOf(db'.journal)
       /\ RowsOf(db.entry) \subseteq RowsOf(db'.entry)
       /\ \A w \in Workers :
            pc'[w] # pc[w]
            => IF IsPosting(call'[w]) /\ pc'[w] = "done" /\ result'[w].status = "Ok"
               THEN /\ Appended(db.batch, db'.batch, 1)
                    /\ Appended(db.journal, db'.journal, Len(call'[w].journals))
                    /\ Appended(db.entry, db'.entry,
                                Len(PostedEntries(<<call'[w].journals>>)))
               ELSE /\ db'.batch = db.batch
                    /\ db'.journal = db.journal
                    /\ db'.entry = db.entry]_vars

\* The store holds the rows of a successful posting of two journals with
\* entries, and a later posting has failed after writing rows.
C18_Witness ==
    /\ Len(db.batch) = 1
    /\ Len(db.journal) = 2
    /\ Len(db.entry) >= 4
    /\ \E w \in Workers :
        /\ Returned(w, "batch_new")
        /\ result[w].status = "StorageError"
        /\ result[w].at \in {"bn_journal", "bn_entry", "bn_commit"}

(***************************************************************************)
(* postBatch on amounts at the limits of the integer type: a ledger with   *)
(* account 1, and callers that post single journals on it.                 *)
(***************************************************************************)
OverflowJournals ==
    { Journal(Str(0, 0), <<Entry(1, IntMin), Entry(1, IntMin)>>),
      Journal(Str(0, 0), <<Entry(1, IntMax), Entry(1, IntMax), Entry(1, 2)>>),
      Journal(Str(0, 0), <<Entry(1, IntMax), Entry(1, 1)>>),
      Journal(Str(0, 0), <<Entry(1, IntMin), Entry(1, IntMax)>>),
      Journal(Str(0, 0), <<Entry(1, IntMax), Entry(1, IntMin), Entry(1, 1)>>),
      Journal(Str(0, 0), <<Entry(1, IntMax), Entry(1, 1), Entry(1, IntMin)>>) }

\* The store after createAccount(Some(1), .., Cash).
InitBalance ==
    /\ db = [InitDb(1) EXCEPT !.account = {[id |-> 1, name |-> Ascii140, type |-> "Cash"]}]
    /\ tx = [w \in Workers |-> NoTx]
    /\ pc = [w \in Workers |-> "idle"]
    /\ call = [w \in Workers |-> NoCall]
    /\ loc = [w \in Workers |-> NoLoc]
    /\ result = [w \in Workers |-> NoResult]
    /\ ncalls = 0
    /\ allocated = BagAdd(<<>>, [id |-> 1, type |-> "Cash", auto |-> FALSE])
    /\ posted = <<>>

NextBalance ==
    \E w \in Workers :
        \/ \E j \in OverflowJournals : batch_new(w, <<j>>)
        \/ bn_begin(w)
        \/ bn_batch(w)
        \/ bn_journal(w)
        \/ bn_entry(w)
        \/ bn_commit(w)
        \/ Return(w)

SpecBalance == InitBalance /\ [][NextBalance]_vars

(***************************************************************************)
(* C19.  postBatch rejects with the balance error every journal whose      *)
(* entry amounts do not sum to zero as integers, also when the sum in the  *)
(* width of the amounts overflows: such a posting goes no further than     *)
(* the validation, and no journal is accepted because its amounts wrap     *)
(* around to 0.                                                            *)
(***************************************************************************)
C19_UnbalancedAlwaysRejected ==
    \A w \in Workers :
        (/\ call[w].op = "batch_new"
         /\ \E i \in 1..Len(call[w].journals) : ~SumsToZero(call[w].journals[i])
         /\ \A i \in 1..Len(call[w].journals) :
                len(call[w].journals[i].unstructured_narrative) <= 140)
        => /\ pc[w] = "done"
           /\ result[w].status = "JournalBalanceError"

(***************************************************************************)
(* C20.  A listAccounts or accountDetail call made while a postBatch is    *)
(* running, at whatever point between its begin and its commit, observes   *)
(* all of that batch's entries or none of them: the balances and totals it *)
(* returns are those of whole batches, and every journal it can see has    *)
(* entries that sum to zero.                                               *)
(***************************************************************************)
PostingSteps == {"bn_begin", "bn_batch", "bn_journal", "bn_entry", "bn_commit"}

\* The answer res of the read c is the one the postings p, taken whole, give.
ReadMatches(c, res, p) ==
    IF c.op = "account_list"
    THEN \A i \in 1..Len(res.accounts) :
            res.accounts[i].account_balance = PostedBalance(p, res.accounts[i].account_id)
    ELSE /\ res.total_debits = PostedDebits(p, c.account_id)
         /\ res.total_credits = PostedCredits(p, c.account_id)
         /\ res.balance = PostedBalance(p, c.account_id)

C20_ReadsSeeWholeBatches ==
    [][\A w \in Workers :
        (/\ pc[w] = "idle" /\ pc'[w] = "done"
         /\ IsRead(call'[w]) /\ result'[w].status = "Ok")
        => \A v \in Workers \ {w} :
            (IsPosting(call[v]) /\ pc[v] \in PostingSteps)
            => /\ \/ ReadMatches(call'[w], result'[w], posted)
                  \/ ReadMatches(call'[w], result'[w], Append(posted, call[v].journals))
               /\ \A i \in 1..Len(PoolView.journal) :
                    StoredJournalSum(PoolView, PoolView.journal[i].id) = 0]_vars

\* accountDetail(1) has answered with no debits while the posting of
\* [+7 to 1, -7 to 1] has written its first entry and not yet its second.
C20_Witness ==
    \E w \in Workers : \E v \in Workers \ {w} :
        /\ Returned(w, "account_detail")
        /\ result[w].status = "Ok"
        /\ result[w].total_debits = 0
        /\ call[v].op = "batch_new"
        /\ pc[v] = "bn_entry"
        /\ loc[v].k = 2
        /\ tx[v].state = "write"
        /\ Len(tx[v].work.entry) = Len(db.entry) + 1

Stuck(d, account_type) ==
    LET name == next_id_setting_name(account_type)
    IN  /\ name \in DOMAIN d.settings
        /\ ~IsNone(d.settings[name])
        /\ Unwrap(d.settings[name]) \in AccountIds(d)

C22_StuckSequenceStaysStuck ==
    [][/\ \A T \in TypeInputs :
            Stuck(db, T)
            => /\ Stuck(db', T)
               /\ db'.settings[next_id_setting_name(T)]
                    = db.settings[next_id_setting_name(T)]
       /\ \A w \in Workers :
            (/\ pc'[w] # pc[w]
             /\ pc'[w] = "done"
             /\ call'[w].op = "account_new"
             /\ IsNone(call'[w].account_id)
             /\ Stuck(db, call'[w].account_type))
            => /\ result'[w].status # "Ok"
               /\ db'.settings = db.settings
               /\ db'.account = db.account]_vars

\* The Cash counter holds 1, the id of an account, and two createAccount calls
\* with the id omitted for Cash have both been refused at the INSERT.
C22_Witness ==
    /\ Stuck(db, "Cash")
    /\ db.settings[next_id_setting_name("Cash")] = Some(1)
    /\ \A w \in Workers :
        /\ Returned(w, "account_new")
        /\ IsNone(call[w].account_id)
        /\ call[w].account_type = "Cash"
        /\ result[w].status = "StorageError"
        /\ result[w].at = "an_insert"

====
